---- MODULE Spec2Model ----
(***************************************************************************)
(* Model of the Kirby weather/message scripts.                             *)
(*                                                                         *)
(*   kirby_display.py     season classifier, image cycling, main loop      *)
(*   kirby_web_modern.py  second copy of the season classifier             *)
(*   kirby_web_server.py  messages.json store and the /send, /api routes   *)
(*   weather_fetcher.py   the two stand-alone weather fetchers             *)
(*                                                                         *)
(* Strings that the code inspects (form fields) are sequences of           *)
(* one-character strings, so that str.strip() is computed, not assumed.    *)
(***************************************************************************)
EXTENDS Integers, Sequences, FiniteSets, TLC

VARIABLES
    \* ---- season classifier (kirby_display.py, kirby_web_modern.py)
    temperature,      \* the argument of the pending/last call
    display_season,   \* result of kirby_display.get_season_from_temperature
    web_season,       \* result of kirby_web_modern.get_season_from_temperature
    \* ---- messages.json and the functions of kirby_web_server.py
    file,             \* content of MESSAGES_FILE
    start_file,       \* content of MESSAGES_FILE when the server started
    saved,            \* history: records of the save_message calls that returned True
    next_id,          \* source of fresh ids: one more than the number of records written
    save_ret,         \* return value of the last save_message call
    save_args,        \* arguments of the last save_message call
    latest_ret,       \* value returned by get_latest_message since the last save
    all_ret,          \* value returned by get_all_messages since the last save
    form,             \* the form of the last POST /send
    pending,          \* TRUE while that request waits for its handler
    posts,            \* number of POST /send requests handled
    response,         \* redirect produced by the last POST /send
    \* ---- two /send requests served by two threads of the Flask server
    pc,               \* where each thread is inside save_message
    local,            \* each thread's local variable `messages`
    ret,              \* each thread's return value
    saw_other,        \* history: the thread loaded the file after the other one had written
    clobbered,        \* the other thread wrote the file while this one had it open
    last_writer,      \* history: the thread whose json.dump finished last, 0 if none
    \* ---- the weather fetch functions
    fetch_fn,         \* the function called
    fetch_env,        \* is the API key set, and what the weather service answers
    fetch_out,        \* how the call ended
    \* ---- kirby_display.load_kirby_image_by_temperature
    clock,            \* time.time() in half seconds
    listing,          \* number of image files in each folder
    image_temp,       \* the temperature passed by the caller
    image,            \* the image returned by the last call
    selection,        \* the last call: its arguments and the image it selected
    prev_selection,   \* the call before it, over the same listing
    \* ---- kirby_display.main
    pcd,              \* position in the main loop
    running,
    current_time,
    weather_data,
    kirby_image,
    last_image_reload,
    last_message_fetch,
    all_messages,
    current_message_index,
    current_message,
    last_message_rotation,
    iter,             \* history: what the current iteration has done so far
    \* ---- kirby_desktop_modern.ModernKirbyApp
    gui_pc,           \* position of the main thread: __init__, mainloop, closed
    th_pc,            \* position of each daemon thread
    rounds,           \* number of time.sleep calls each thread has finished
    tk_queue,         \* callbacks scheduled with root.after, not yet run
    executing,        \* the calls of the three functions now running, and their threads
    changed_by,       \* history: the threads that have changed the application state
    runs,             \* history: number of finished calls of each function
    animation_time,   \* in tenths
    kirby_float_offset,
    kirby_y,          \* position of kirby_label
    time_label,
    weather_labels,
    messages_text,
    \* ---- kirby_ultimate: /ws
    ws_pc,            \* position of the handler of each connection
    ws_open,          \* is the client still there
    ws_sent,          \* the messages sent on each connection
    ws_sleeps,        \* number of asyncio.sleep(30) calls that have returned
    ws_end,           \* the exception that ended the handler, "none" before
    active_connections,
    \* ---- kirby_modern_display
    modern_current_message,
    modern_card,      \* the texts drawn by draw_message_card
    \* ---- from /send to the display
    tracked,          \* the id of one message, any of them
    tracked_shown,    \* history: kirby_display has displayed that message
    \* ---- the weather records handed out
    weather_log,      \* history: the records with a season field, oldest first
    \* ---- the rotation of kirby_display
    shown_log         \* history: the messages shown by the last rotations of one list

seasonVars == <<temperature, display_season, web_season>>
storeVars  == <<file, start_file, saved, next_id, save_ret, save_args, latest_ret, all_ret>>
sendVars   == <<form, pending, posts, response>>
raceVars   == <<pc, local, ret, saw_other, clobbered, last_writer>>
fetchVars  == <<fetch_fn, fetch_env, fetch_out>>
imageVars  == <<clock, listing, image_temp, image, selection, prev_selection>>
displayVars == <<pcd, running, current_time, weather_data, kirby_image, last_image_reload,
                 last_message_fetch, all_messages, current_message_index, current_message,
                 last_message_rotation, iter>>
desktopVars == <<gui_pc, th_pc, rounds, tk_queue, executing, changed_by, runs,
                 animation_time, kirby_float_offset, kirby_y, time_label,
                 weather_labels, messages_text>>
wsVars == <<ws_pc, ws_open, ws_sent, ws_sleeps, ws_end, active_connections>>
readerVars == <<modern_current_message, modern_card>>
deliverVars == <<tracked, tracked_shown>>
recordVars == <<weather_log>>
rotateVars == <<shown_log>>
extraVars == <<desktopVars, wsVars, readerVars, deliverVars, recordVars, rotateVars>>
vars == <<seasonVars, storeVars, sendVars, raceVars, fetchVars, imageVars, displayVars,
          extraVars>>

-----------------------------------------------------------------------------
(* Bounds of the model *)

MaxTemp == 30
MaxSaves == 11
MaxOld == 12
MaxSends == 1
MaxStrLen == 2
MaxHalfDegrees == 5
MaxImages == 3
MaxClock == 130
MaxEvents == 1
MaxMsgs == 2
MaxLoopTime == 100
MaxQueue == 3
MaxRounds == 2
MaxConns == 2
MaxSleeps == 2
MaxReaderSaves == 6
MaxDeliver == 11
MaxRecords == 3

-----------------------------------------------------------------------------
(* Season classifier *)

Temps == (0 - MaxTemp)..MaxTemp

Seasons == {"summer", "spring", "fall", "winter"}

\* mutant: the summer threshold tested with > instead of >=
get_season_strict(t) ==
    IF t > 20 THEN "summer"
    ELSE IF t >= 10 THEN "spring"
    ELSE IF t >= 0 THEN "fall"
    ELSE "winter"

\* kirby_display.py
get_season_from_temperature(t) ==
    IF t >= 20 THEN "summer"
    ELSE IF t >= 10 THEN "spring"
    ELSE IF t >= 0 THEN "fall"
    ELSE "winter"

\* kirby_web_modern.py
web_get_season_from_temperature(t) ==
    IF t >= 20 THEN "summer"
    ELSE IF t >= 10 THEN "spring"
    ELSE IF t >= 0 THEN "fall"
    ELSE "winter"

SeasonInit ==
    /\ temperature \in Temps
    /\ display_season = "none"
    /\ web_season = "none"

SeasonIdle ==
    /\ temperature = 0
    /\ display_season = "none"
    /\ web_season = "none"

\* a caller passes a new temperature
NewTemperature ==
    /\ temperature' \in Temps
    /\ display_season' = "none"
    /\ web_season' = "none"

CallDisplaySeason ==
    /\ display_season' = get_season_from_temperature(temperature)
    /\ UNCHANGED <<temperature, web_season>>

CallWebSeason ==
    /\ web_season' = web_get_season_from_temperature(temperature)
    /\ UNCHANGED <<temperature, display_season>>

-----------------------------------------------------------------------------
(* messages.json and kirby_web_server.py *)

\* Content of the file: absent, present but open() fails ("unreadable"),
\* present but not JSON ("corrupt"), JSON that is not an array ("notlist"),
\* or a JSON array of records ("list").
Absent      == [kind |-> "absent", data |-> <<>>]
Unreadable  == [kind |-> "unreadable", data |-> <<>>]
Corrupt     == [kind |-> "corrupt", data |-> <<>>]
NotList     == [kind |-> "notlist", data |-> <<>>]
ListFile(s) == [kind |-> "list", data |-> s]

None == [none |-> TRUE]
NotCalled == [called |-> FALSE]

Anonymous == <<"A", "n", "o", "n", "y", "m", "o", "u", "s">>

\* records that were in the file before the server started
OldRecord(i) == [id |-> 0 - i, username |-> <<"o">>, message |-> <<"o">>]
OldList(n) == [i \in 1..n |-> OldRecord(i)]
OldLens == {0, 10, MaxOld}

InitFiles == {Absent, Unreadable, Corrupt, NotList} \cup {ListFile(OldList(n)) : n \in OldLens}

\* lines 65-71; uuid4 is modelled as a fresh number, the two time stamps
\* are read by no modelled function and are left out
new_message(id, username, message) ==
    [id |-> id, username |-> username, message |-> message]

\* mutant: keep the first 10 entries
KeepFirst10(messages) ==
    IF Len(messages) <= 10 THEN messages ELSE SubSeq(messages, 1, 10)

\* mutant: only the newest entry is kept
KeepLast1(messages) ==
    IF Len(messages) <= 1 THEN messages
    ELSE SubSeq(messages, Len(messages), Len(messages))

\* mutant: off-by-one cap
KeepLast11(messages) ==
    IF Len(messages) <= 11 THEN messages
    ELSE SubSeq(messages, Len(messages) - 10, Len(messages))

\* messages[-10:]
KeepLast10(messages) ==
    IF Len(messages) <= 10 THEN messages
    ELSE SubSeq(messages, Len(messages) - 9, Len(messages))

\* mutant: the new record is inserted in front
Prepend(messages, rec) == <<rec>> \o messages

\* messages.append(new_message)
AppendMessage(messages, rec) == Append(messages, rec)

\* lines 58-62: does loading raise?
LoadRaises(f) == f.kind \in {"unreadable", "corrupt"}

\* lines 58-62: the value of `messages` after loading
LoadMessages(f) == IF f.kind = "absent" THEN <<>> ELSE f.data

\* lines 58-76: the read half of save_message raises when the file cannot be
\* opened or parsed, or when the loaded JSON value has no append()
SaveReadRaises(f) == LoadRaises(f) \/ f.kind = "notlist"

\* lines 73-76: the list that save_message is about to write
MessagesToWrite(f, rec) == KeepLast10(AppendMessage(LoadMessages(f), rec))

\* outcome of lines 79-80: "ok", open() raises and leaves the file alone
\* ("open_fail"), or json.dump raises after open() truncated the file
\* ("dump_fail")
WriteOutcomes == {"ok", "open_fail", "dump_fail"}

\* the file after save_message(username, message)
save_message_file(f, rec, wr) ==
    IF SaveReadRaises(f) THEN f
    ELSE IF wr = "ok" THEN ListFile(MessagesToWrite(f, rec))
    ELSE IF wr = "open_fail" THEN f
    ELSE Corrupt

\* the return value of save_message(username, message)
save_message_ret(f, wr) == ~SaveReadRaises(f) /\ wr = "ok"

\* mutant: the oldest message is returned
get_first_message(f) ==
    IF f.kind = "list" /\ Len(f.data) > 0 THEN f.data[1] ELSE None

\* lines 88-98; `if messages` is false for an empty array and for the empty
\* non-array value, and every exception ends in `return None`
get_latest_message(f) ==
    IF f.kind = "list" /\ Len(f.data) > 0 THEN f.data[Len(f.data)] ELSE None

\* lines 100-109: the parsed JSON value (an array, or whatever else the file
\* holds), and [] when the file is absent or loading raises
get_all_messages(f) ==
    IF f.kind \in {"list", "notlist"} THEN f ELSE ListFile(<<>>)

Returned(v) == [called |-> TRUE, value |-> v]

\* the server starts with the file f
StoreStart(f) ==
    /\ file = f
    /\ start_file = file
    /\ saved = <<>>
    /\ next_id = 1
    /\ save_ret = FALSE
    /\ save_args = None
    /\ latest_ret = NotCalled
    /\ all_ret = NotCalled

StoreInit == \E f \in InitFiles : StoreStart(f)

StoreIdle == StoreStart(Absent)

\* one whole call save_message(username, message), no other request running
SaveMessage(username, message, wr) ==
    LET rec == new_message(next_id, username, message) IN
    /\ file' = save_message_file(file, rec, wr)
    /\ save_ret' = save_message_ret(file, wr)
    /\ save_args' = [username |-> username, message |-> message]
    /\ saved' = IF save_message_ret(file, wr) THEN Append(saved, rec) ELSE saved
    /\ next_id' = IF save_message_ret(file, wr) THEN next_id + 1 ELSE next_id
    /\ latest_ret' = NotCalled
    /\ all_ret' = NotCalled
    /\ UNCHANGED start_file

\* GET /api/latest
ApiLatest ==
    /\ latest_ret' = Returned(get_latest_message(file))
    /\ UNCHANGED <<file, start_file, saved, next_id, save_ret, save_args, all_ret>>

\* GET /api/messages
ApiMessages ==
    /\ all_ret' = Returned(get_all_messages(file))
    /\ UNCHANGED <<file, start_file, saved, next_id, save_ret, save_args, latest_ret>>

StoreUsers == {<<"k">>}
StoreMsgs == {<<"h">>, <<"y">>}

StoreSave ==
    /\ next_id <= MaxSaves
    /\ \E u \in StoreUsers, m \in StoreMsgs, wr \in WriteOutcomes : SaveMessage(u, m, wr)

-----------------------------------------------------------------------------
(* POST /send *)

Whitespace == {" "}
Chars == {" ", "a"}

\* all strings of at most n characters
RECURSIVE StringsUpTo(_)
StringsUpTo(n) ==
    IF n = 0 THEN {<<>>}
    ELSE LET shorter == StringsUpTo(n - 1) IN
         shorter \cup {Append(s, c) : s \in {t \in shorter : Len(t) = n - 1}, c \in Chars}

\* a form field: missing from the request, or present with a value
Missing == [present |-> FALSE, value |-> <<>>]
Present(s) == [present |-> TRUE, value |-> s]
FormFields == {Missing} \cup {Present(s) : s \in StringsUpTo(MaxStrLen)}

\* request.form.get(key, '')
FormGet(field) == IF field.present THEN field.value ELSE <<>>

RECURSIVE LStrip(_)
LStrip(s) == IF s # <<>> /\ Head(s) \in Whitespace THEN LStrip(Tail(s)) ELSE s

RECURSIVE RStrip(_)
RStrip(s) ==
    IF s # <<>> /\ s[Len(s)] \in Whitespace THEN RStrip(SubSeq(s, 1, Len(s) - 1)) ELSE s

\* mutant: the field is used as it was sent
NoStrip(s) == s

\* str.strip()
Strip(s) == RStrip(LStrip(s))

\* mutant: a blank username is stored as it is
KeepUsername(username) == username

\* lines 127-128
DefaultUsername(username) == IF username = <<>> THEN Anonymous ELSE username

NoForm == [username |-> Missing, message |-> Missing]

SendInit ==
    /\ form = NoForm
    /\ pending = FALSE
    /\ posts = 0
    /\ response = "none"

SendIdle == SendInit

SendInitFiles == {Absent, Corrupt, ListFile(OldList(10))}

\* a client posts a form to /send
PostSend ==
    /\ ~pending
    /\ posts < MaxSends
    /\ \E fu \in FormFields, fm \in FormFields : form' = [username |-> fu, message |-> fm]
    /\ pending' = TRUE
    /\ UNCHANGED <<posts, response, storeVars>>

\* lines 121-135, the whole handler of one request
send_message(wr) ==
    LET username == DefaultUsername(Strip(FormGet(form.username)))
        message  == Strip(FormGet(form.message))
    IN  /\ pending
        /\ pending' = FALSE
        /\ posts' = posts + 1
        /\ UNCHANGED form
        /\ IF message # <<>>
           THEN /\ SaveMessage(username, message, wr)
                /\ response' = IF save_message_ret(file, wr) THEN "sent" ELSE "error"
           ELSE /\ UNCHANGED storeVars
                /\ response' = "error"

HandleSend == \E wr \in WriteOutcomes : send_message(wr)

-----------------------------------------------------------------------------
(* Two concurrent /send requests: save_message step by step *)

Threads == {1, 2}
Other(p) == 3 - p

\* the arguments of the two calls, and the record each call builds
RaceUser(p) == <<"k">>
RaceMsg(p) == IF p = 1 THEN <<"h">> ELSE <<"y">>
RaceRecord(p) == new_message(p, RaceUser(p), RaceMsg(p))

RaceInitFiles == {Absent, Corrupt, ListFile(OldList(3)), ListFile(OldList(10))}

RaceInit ==
    /\ pc = [p \in Threads |-> "start"]
    /\ local = [p \in Threads |-> <<>>]
    /\ ret = [p \in Threads |-> "none"]
    /\ saw_other = [p \in Threads |-> FALSE]
    /\ clobbered = [p \in Threads |-> FALSE]
    /\ last_writer = 0

RaceIdle == RaceInit

\* lines 56-76: load the file, append the new record, slice; an exception
\* ends the call with False
RaceLoad(p) ==
    /\ pc[p] = "start"
    /\ IF SaveReadRaises(file)
       THEN /\ pc' = [pc EXCEPT ![p] = "done"]
            /\ ret' = [ret EXCEPT ![p] = "False"]
            /\ UNCHANGED <<local, saw_other>>
       ELSE /\ pc' = [pc EXCEPT ![p] = "loaded"]
            /\ local' = [local EXCEPT ![p] = MessagesToWrite(file, RaceRecord(p))]
            /\ saw_other' = [saw_other EXCEPT ![p] = (last_writer = Other(p))]
            /\ UNCHANGED ret
    /\ UNCHANGED <<file, clobbered, last_writer>>

\* line 79: open(MESSAGES_FILE, 'w') truncates the file, or raises
RaceOpen(p) ==
    /\ pc[p] = "loaded"
    /\ \/ /\ pc' = [pc EXCEPT ![p] = "opened"]
          /\ file' = Corrupt
          /\ clobbered' = [clobbered EXCEPT ![p] = FALSE]
          /\ UNCHANGED ret
       \/ /\ pc' = [pc EXCEPT ![p] = "done"]
          /\ ret' = [ret EXCEPT ![p] = "False"]
          /\ UNCHANGED <<file, clobbered>>
    /\ UNCHANGED <<local, saw_other, last_writer>>

\* line 80 and the end of the with block: json.dump writes the local list
\* and the file is closed, or json.dump raises and leaves a partial file.
\* When the other thread wrote through its own handle in between, the bytes
\* of the two writes overlay each other: the file is this thread's list or
\* not JSON at all.
RaceDump(p) ==
    /\ pc[p] = "opened"
    /\ pc' = [pc EXCEPT ![p] = "done"]
    /\ \/ /\ file' = ListFile(local[p])
          /\ ret' = [ret EXCEPT ![p] = "True"]
          /\ last_writer' = p
       \/ /\ clobbered[p]
          /\ file' = Corrupt
          /\ ret' = [ret EXCEPT ![p] = "True"]
          /\ last_writer' = p
       \/ /\ file' = Corrupt
          /\ ret' = [ret EXCEPT ![p] = "False"]
          /\ UNCHANGED last_writer
    /\ clobbered' = [q \in Threads |-> IF q # p /\ pc[q] = "opened" THEN TRUE ELSE clobbered[q]]
    /\ UNCHANGED <<local, saw_other>>

raceStoreVars == <<start_file, saved, next_id, save_ret, save_args, latest_ret, all_ret>>

-----------------------------------------------------------------------------
(* The weather fetch functions *)

FetchFunctions ==
    {"kirby_display.get_weather_data", "kirby_web_server.get_weather_data",
     "weather_fetcher.get_weather_openweather", "weather_fetcher.get_weather_weatherapi"}

\* round() of a temperature given in half degrees: ties go to the even integer
PyRound(h) ==
    LET floor == IF h >= 0 THEN h \div 2 ELSE 0 - ((1 - h) \div 2) IN
    IF h % 2 = 0 THEN floor
    ELSE IF floor % 2 = 0 THEN floor ELSE floor + 1

\* What the weather service does with the request:
\*   "conn_error"    requests.get raises (no route, timeout)
\*   "http_error"    the status is 4xx/5xx, raise_for_status raises
\*   "not_json"      the body is not JSON, response.json() raises
\*   "array_body"    the JSON body is an array, not an object
\*   "missing_key"   a key that the function reads is absent
\*   "empty_weather" the 'weather' array of OpenWeatherMap is empty
\*   "null_temp"     the temperature is null
\*   "cond_not_str"  the condition text is a number
\*   "ok"            a well-formed answer
Answers ==
    {"conn_error", "http_error", "not_json", "array_body", "missing_key",
     "empty_weather", "null_temp", "cond_not_str", "ok"}

HalfDegrees == (0 - MaxHalfDegrees)..MaxHalfDegrees

\* response.json() of this installation raises a RequestException subclass
\* (requests >= 2.27) or a plain ValueError (older releases)
JsonErrors == {"RequestException", "ValueError"}

FetchEnvs ==
    [has_key : BOOLEAN, answer : Answers, temp : HalfDegrees, json_error : JsonErrors]

\* the exception that the body of the try block raises, "none" if it runs
\* to its return statement
RaisedInTry(fn, env) ==
    CASE env.answer = "conn_error" -> "RequestException"
      [] env.answer = "http_error" -> "RequestException"
      [] env.answer = "not_json" -> env.json_error
      [] env.answer = "array_body" -> "TypeError"
      [] env.answer = "missing_key" -> "KeyError"
      [] env.answer = "empty_weather" ->
            IF fn = "weather_fetcher.get_weather_openweather" THEN "IndexError" ELSE "none"
      [] env.answer = "null_temp" -> "TypeError"
      [] env.answer = "cond_not_str" ->
            IF fn = "weather_fetcher.get_weather_weatherapi" THEN "AttributeError" ELSE "none"
      [] OTHER -> "none"

\* mutant: every function has an `except Exception` clause
CatchesAll(fn, exc) == TRUE

\* the except clauses of each function
Catches(fn, exc) ==
    IF fn \in {"kirby_display.get_weather_data", "kirby_web_server.get_weather_data"}
    THEN TRUE
    ELSE exc \in {"RequestException", "KeyError"}

WeatherRecord(env) ==
    [condition |-> "Clear", temperature |-> PyRound(env.temp), city |-> "Lethbridge"]

\* how a call of fn ends: it returns a weather record or None, or the
\* exception leaves the function
Fetch(fn, env) ==
    IF ~env.has_key THEN [kind |-> "return", value |-> None, exc |-> "none"]
    ELSE LET exc == RaisedInTry(fn, env) IN
         IF exc = "none" THEN [kind |-> "return", value |-> WeatherRecord(env), exc |-> "none"]
         ELSE IF Catches(fn, exc) THEN [kind |-> "return", value |-> None, exc |-> exc]
         ELSE [kind |-> "raise", value |-> None, exc |-> exc]

NoFetch == [kind |-> "none", value |-> None, exc |-> "none"]

FetchInit ==
    /\ fetch_fn \in FetchFunctions
    /\ fetch_env \in FetchEnvs
    /\ fetch_out = NoFetch

FetchIdle ==
    /\ fetch_fn = "kirby_display.get_weather_data"
    /\ fetch_env = [has_key |-> FALSE, answer |-> "ok", temp |-> 0, json_error |-> "ValueError"]
    /\ fetch_out = NoFetch

\* the function is called
CallFetch ==
    /\ fetch_out = NoFetch
    /\ fetch_out' = Fetch(fetch_fn, fetch_env)
    /\ UNCHANGED <<fetch_fn, fetch_env>>

\* the caller goes on to another call
NextFetch ==
    /\ fetch_out # NoFetch
    /\ fetch_fn' \in FetchFunctions
    /\ fetch_env' \in FetchEnvs
    /\ fetch_out' = NoFetch

-----------------------------------------------------------------------------
(* kirby_display.load_kirby_image_by_temperature *)

cycle_interval == 30

Folders == Seasons \cup {"images"}

\* int(time.time()), the clock counting half seconds
IntTime(t) == t \div 2

\* mutant: the index advances every second
ImageIndexPerSecond(t, n) == IntTime(t) % n

\* line 276 (and 315)
ImageIndex(t, n) == (IntTime(t) \div cycle_interval) % n

NoImage == [folder |-> "none", index |-> 0]

WeatherConditions == {"Clear", "Snow"}

\* mutant: snow selects the winter folder whatever the temperature
season_folder_by_condition(temp, weather_condition) ==
    IF weather_condition = "Snow" THEN "winter"
    ELSE get_season_from_temperature(temp)

\* lines 255-261: the folder searched, images/<season>; weather_condition
\* is a parameter the body never reads
season_folder(temp, weather_condition) ==
    get_season_from_temperature(temp)

\* lines 271-277: the image chosen from the season folder, before it is loaded
selected_image(temp, weather_condition, t, counts) ==
    LET season == season_folder(temp, weather_condition) IN
    IF counts[season] > 0
    THEN [folder |-> season, index |-> ImageIndex(t, counts[season])]
    ELSE NoImage

\* lines 243-337: the image returned; load_ok and fallback_ok tell whether
\* pygame.image.load succeeds, t2 is the clock when the fallback is chosen
load_kirby_image_by_temperature(temp, weather_condition, t, t2, counts, load_ok, fallback_ok) ==
    LET season == season_folder(temp, weather_condition) IN
    IF counts[season] > 0 /\ load_ok
    THEN [folder |-> season, index |-> ImageIndex(t, counts[season])]
    ELSE IF counts["images"] > 0 /\ fallback_ok
    THEN [folder |-> "images", index |-> ImageIndex(t2, counts["images"])]
    ELSE NoImage

ImageTemps == {0 - 5, 5, 15, 25}

\* every season folder holds n files, the main folder m
Listings == {[f \in Folders |-> IF f = "images" THEN m ELSE n] : n \in 0..MaxImages, m \in 0..1}

NoSelection == [called |-> FALSE]

ImageInit ==
    /\ clock \in {0, 1}
    /\ listing \in Listings
    /\ image_temp \in ImageTemps
    /\ image = NoImage
    /\ selection = NoSelection
    /\ prev_selection = NoSelection

ImageIdle ==
    /\ clock = 0
    /\ listing = [f \in Folders |-> 0]
    /\ image_temp = 0
    /\ image = NoImage
    /\ selection = NoSelection
    /\ prev_selection = NoSelection

\* time between two looks at the clock: 14.5 s or 15.5 s
ClockSteps == {29, 31}

PassTime ==
    /\ \E dt \in ClockSteps : clock + dt <= MaxClock /\ clock' = clock + dt
    /\ UNCHANGED <<listing, image_temp, image, selection, prev_selection>>

\* one call of load_kirby_image_by_temperature
LoadImage ==
    /\ \E weather_condition \in WeatherConditions :
          /\ selection' =
                [called |-> TRUE, temperature |-> image_temp,
                 condition |-> weather_condition, time |-> clock,
                 folder |-> season_folder(image_temp, weather_condition),
                 count |-> listing[season_folder(image_temp, weather_condition)],
                 selected |-> selected_image(image_temp, weather_condition,
                                             clock, listing)]
          /\ \E load_ok \in BOOLEAN, fallback_ok \in BOOLEAN :
                image' = load_kirby_image_by_temperature(
                             image_temp, weather_condition, clock, clock, listing,
                             load_ok, fallback_ok)
    /\ prev_selection' = selection
    /\ UNCHANGED <<clock, listing, image_temp>>

-----------------------------------------------------------------------------
(* kirby_display.main *)

image_cycle_interval == 30
message_fetch_interval == 10
message_rotation_interval == 30

\* a number of seconds on the half-second clock
Seconds(n) == 2 * n

\* lines 403-409
DemoWeather == [condition |-> "Demo Mode", temperature |-> 20, city |-> "Lethbridge"]

\* what the weather service can answer to the display: -1.5 or 20.5 degrees,
\* or nothing
DisplayEnvs ==
    {[has_key |-> TRUE, answer |-> a, temp |-> t, json_error |-> "ValueError"] :
        a \in {"ok"}, t \in {0 - 3, 41}}
    \cup {[has_key |-> TRUE, answer |-> "conn_error", temp |-> 0, json_error |-> "ValueError"]}

display_get_weather_data(env) == Fetch("kirby_display.get_weather_data", env).value

\* the image files on disk while the display runs
DisplayListings == {[f \in Folders |-> IF f = "images" THEN 1 ELSE n] : n \in {0, 2}}

\* the events of one pygame.event.get(): a key press carries the answer that
\* the weather service gives to the refresh, a reload whether the file loads
DisplayEvents ==
    {[type |-> t, env |-> CHOOSE e \in DisplayEnvs : TRUE, load_ok |-> TRUE] : t \in {"QUIT", "K_q"}}
    \cup {[type |-> "VIDEORESIZE", env |-> CHOOSE e \in DisplayEnvs : TRUE, load_ok |-> ok] :
              ok \in BOOLEAN}
    \cup {[type |-> "K_r", env |-> e, load_ok |-> ok] : e \in DisplayEnvs, ok \in BOOLEAN}

RECURSIVE EventQueues(_)
EventQueues(n) ==
    IF n = 0 THEN {<<>>}
    ELSE LET shorter == EventQueues(n - 1) IN
         shorter \cup {Append(q, e) : q \in {r \in shorter : Len(r) = n - 1}, e \in DisplayEvents}

\* the message lists that GET /api/messages can deliver: the records
\* a..b of the server's history
ServerRecord(i) == new_message(i, <<"k">>, <<"h">>)
ServerLists == {[i \in 1..(b - a + 1) |-> ServerRecord(a + i - 1)] : a \in 1..MaxMsgs, b \in 0..MaxMsgs}

\* lines 212-227: the list fetched, [] when the request fails or the list is empty
display_get_all_messages(ok, server_list) == IF ok THEN server_list ELSE <<>>

NoIter == [r_presses |-> 0, r_answered |-> 0, key_reloads |-> 0, resize_reloads |-> 0,
           timer_reloads |-> 0, reload_at_top |-> 0, fetched |-> FALSE, rotated |-> FALSE,
           first_fetch |-> NotCalled]

\* lines 395-444
DisplayInit ==
    /\ pcd = "top"
    /\ running = TRUE
    /\ clock \in {120, 121}
    /\ listing \in DisplayListings
    /\ current_time = 0
    /\ \E env \in DisplayEnvs :
          /\ weather_data = IF display_get_weather_data(env) = None
                            THEN DemoWeather ELSE display_get_weather_data(env)
          /\ iter = [NoIter EXCEPT !.first_fetch = Returned(display_get_weather_data(env))]
    /\ \E ok \in BOOLEAN :
          kirby_image = load_kirby_image_by_temperature(
                            weather_data.temperature, weather_data.condition,
                            clock, clock, listing, ok, ok)
    /\ last_image_reload = clock
    /\ last_message_fetch = 0
    /\ all_messages = <<>>
    /\ current_message_index = 0
    /\ current_message = None
    /\ last_message_rotation = 0

DisplayIdle ==
    /\ pcd = "off"
    /\ running = FALSE
    /\ current_time = 0
    /\ weather_data = DemoWeather
    /\ kirby_image = NoImage
    /\ last_image_reload = 0
    /\ last_message_fetch = 0
    /\ all_messages = <<>>
    /\ current_message_index = 0
    /\ current_message = None
    /\ last_message_rotation = 0
    /\ iter = NoIter

\* time between two passes of the loop: 10 s, 29.5 s or 30 s
LoopSteps == {20, 59, 60}

\* line 448-449: the loop goes round while running, and reads the clock
LoopTop ==
    /\ pcd = "top"
    /\ running
    /\ \E dt \in LoopSteps :
          /\ clock + dt <= 120 + MaxLoopTime
          /\ clock' = clock + dt
    /\ current_time' = clock'
    /\ iter' = [NoIter EXCEPT !.reload_at_top = last_image_reload]
    /\ pcd' = "events"
    /\ UNCHANGED <<listing, running, weather_data, kirby_image, last_image_reload,
                   last_message_fetch, all_messages, current_message_index,
                   current_message, last_message_rotation>>

\* line 448: the loop ends when running is False
LoopExit ==
    /\ pcd = "top"
    /\ ~running
    /\ pcd' = "stopped"
    /\ UNCHANGED <<clock, listing, running, current_time, weather_data, kirby_image,
                   last_image_reload, last_message_fetch, all_messages,
                   current_message_index, current_message, last_message_rotation, iter>>

\* the variables that the event handlers change
EventState ==
    [running |-> running, weather_data |-> weather_data, kirby_image |-> kirby_image,
     last_image_reload |-> last_image_reload, iter |-> iter]

\* mutant: the image is reloaded whatever the refresh returned
HandleKeyRAlways(st, ev, now, counts) ==
    LET new_data == display_get_weather_data(ev.env)
        data     == IF new_data # None THEN new_data ELSE st.weather_data
    IN  [st EXCEPT
            !.weather_data = data,
            !.kirby_image = load_kirby_image_by_temperature(
                                data.temperature, data.condition, now, now, counts,
                                ev.load_ok, ev.load_ok),
            !.last_image_reload = now,
            !.iter.r_presses = @ + 1,
            !.iter.r_answered = @ + (IF new_data # None THEN 1 ELSE 0),
            !.iter.key_reloads = @ + 1]

\* lines 473-487
HandleKeyR(st, ev, now, counts) ==
    LET new_data == display_get_weather_data(ev.env) IN
    IF new_data # None
    THEN [st EXCEPT
            !.weather_data = new_data,
            !.kirby_image = load_kirby_image_by_temperature(
                                new_data.temperature, new_data.condition, now, now, counts,
                                ev.load_ok, ev.load_ok),
            !.last_image_reload = now,
            !.iter.r_presses = @ + 1,
            !.iter.r_answered = @ + 1,
            !.iter.key_reloads = @ + 1]
    ELSE [st EXCEPT !.iter.r_presses = @ + 1]

\* lines 452-487, one event
HandleEvent(st, ev, now, counts) ==
    CASE ev.type \in {"QUIT", "K_q"} -> [st EXCEPT !.running = FALSE]
      [] ev.type = "VIDEORESIZE" ->
            [st EXCEPT
                !.kirby_image = load_kirby_image_by_temperature(
                                    st.weather_data.temperature, st.weather_data.condition,
                                    now, now, counts,
                                    ev.load_ok, ev.load_ok),
                !.iter.resize_reloads = @ + 1]
      [] ev.type = "K_r" -> HandleKeyR(st, ev, now, counts)

\* lines 451-487, the whole queue in order
RECURSIVE HandleEvents(_, _, _, _)
HandleEvents(st, queue, now, counts) ==
    IF queue = <<>> THEN st
    ELSE HandleEvents(HandleEvent(st, Head(queue), now, counts), Tail(queue), now, counts)

\* lines 451-487: the events of one pygame.event.get(), taken from queues
LoopEventsFrom(queues) ==
    /\ pcd = "events"
    /\ \E queue \in queues :
          LET st == HandleEvents(EventState, queue, current_time, listing) IN
          /\ running' = st.running
          /\ weather_data' = st.weather_data
          /\ kirby_image' = st.kirby_image
          /\ last_image_reload' = st.last_image_reload
          /\ iter' = st.iter
    /\ pcd' = "cycle"
    /\ UNCHANGED <<clock, listing, current_time, last_message_fetch, all_messages,
                   current_message_index, current_message, last_message_rotation>>

LoopEvents == LoopEventsFrom(EventQueues(MaxEvents))

\* mutant: the interval has to be exceeded
CycleDueStrict(now, last) == now - last > Seconds(image_cycle_interval)

\* line 490
CycleDue(now, last) == now - last >= Seconds(image_cycle_interval)

\* lines 489-498
LoopCycle ==
    /\ pcd = "cycle"
    /\ IF CycleDue(current_time, last_image_reload)
       THEN /\ \E ok \in BOOLEAN :
                  kirby_image' = load_kirby_image_by_temperature(
                                     weather_data.temperature, weather_data.condition,
                                     current_time, current_time,
                                     listing, ok, ok)
            /\ last_image_reload' = current_time
            /\ iter' = [iter EXCEPT !.timer_reloads = @ + 1]
       ELSE UNCHANGED <<kirby_image, last_image_reload, iter>>
    /\ pcd' = "messages"
    /\ UNCHANGED <<clock, listing, running, current_time, weather_data, last_message_fetch,
                   all_messages, current_message_index, current_message,
                   last_message_rotation>>

\* mutant: only the lengths are compared
LengthChanged(new_messages, old_messages) == Len(new_messages) # Len(old_messages)

\* line 505
ListChanged(new_messages, old_messages) ==
    \/ Len(new_messages) # Len(old_messages)
    \/ /\ new_messages # <<>>
       /\ old_messages # <<>>
       /\ new_messages[Len(new_messages)] # old_messages[Len(old_messages)]

\* mutant: whatever the fetch returns becomes the list
TakeFetched(due, new_messages, old_messages) ==
    IF due THEN new_messages ELSE old_messages

\* lines 500-508: all_messages after the fetch step
AfterFetch(due, new_messages, old_messages) ==
    IF due /\ new_messages # <<>> /\ ListChanged(new_messages, old_messages)
    THEN new_messages ELSE old_messages

\* mutant: the rotation steps over a message
skip_message_index(index, n) == (index + 2) % n

\* line 512
next_message_index(index, n) == (index + 1) % n

\* lines 500-522, the server answering server_list (ok) or not at all
LoopMessagesWith(ok, server_list) ==
    /\ pcd = "messages"
    /\    LET fetch_due  == current_time - last_message_fetch >= Seconds(message_fetch_interval)
              msgs       == AfterFetch(fetch_due, display_get_all_messages(ok, server_list),
                                       all_messages)
              rotate     == /\ msgs # <<>>
                            /\ current_time - last_message_rotation
                                   >= Seconds(message_rotation_interval)
              index      == IF rotate THEN next_message_index(current_message_index, Len(msgs))
                            ELSE current_message_index
          IN  /\ all_messages' = msgs
              /\ last_message_fetch' = IF fetch_due THEN current_time ELSE last_message_fetch
              /\ current_message_index' = index
              /\ last_message_rotation' = IF rotate THEN current_time ELSE last_message_rotation
              /\ current_message' = IF msgs # <<>> /\ index < Len(msgs)
                                    THEN msgs[index + 1] ELSE None
              /\ iter' = [iter EXCEPT !.fetched = fetch_due, !.rotated = rotate]
    /\ pcd' = "top"
    /\ UNCHANGED <<clock, listing, running, current_time, weather_data, kirby_image,
                   last_image_reload>>

\* lines 500-522
LoopMessages == \E ok \in BOOLEAN, server_list \in ServerLists : LoopMessagesWith(ok, server_list)

-----------------------------------------------------------------------------
(* kirby_desktop_modern.ModernKirbyApp: the Tk main thread and the two     *)
(* daemon threads of start_animations                                      *)

DesktopThreads == {"animation", "data"}
Callbacks == {"animate_kirby_float", "update_time", "load_data"}

\* int(math.sin(k * 0.1) * 10) for k = 1, 2, ... (line 239)
SinTable == <<0, 1, 2, 3, 4, 5, 6, 7, 7, 8, 8, 9, 9, 9, 9, 9, 9, 9, 9, 9, 8, 8, 7, 6>>
SinTimes10(k) == IF k = 0 THEN 0 ELSE SinTable[((k - 1) % Len(SinTable)) + 1]

\* a record of messages.json in the form the Welcome messages have
NamedRecord(i) == [message |-> <<"w">>, name |-> <<"s">>, id |-> 0 - i]
NamedList(n) == [i \in 1..n |-> NamedRecord(i)]

HasKey(rec, key) == key \in DOMAIN rec

UnableToLoad == [kind |-> "error", lines |-> <<>>]

\* lines 310-326: the content of the messages widget after load_messages
desktop_load_messages(f) ==
    IF f.kind # "list" THEN UnableToLoad
    ELSE LET n     == IF Len(f.data) < 5 THEN Len(f.data) ELSE 5
             first == SubSeq(f.data, 1, n)
         IN  IF \E i \in 1..n : ~(HasKey(first[i], "message") /\ HasKey(first[i], "name"))
             THEN UnableToLoad
             ELSE [kind  |-> "text",
                   lines |-> [i \in 1..n |-> [message |-> first[i].message,
                                              from    |-> first[i].name]]]

\* lines 256-279: the labels after load_weather_data
DesktopWeather == [temperature |-> 24, condition |-> "Sunny", season |-> "summer"]
NoWeatherLabels == [temperature |-> 0, condition |-> "--", season |-> "--"]
NoText == [kind |-> "empty", lines |-> <<>>]

\* the application state: the attributes and the widgets that the three
\* callbacks change
DesktopState ==
    [animation_time |-> animation_time, kirby_float_offset |-> kirby_float_offset,
     kirby_y |-> kirby_y, time_label |-> time_label,
     weather_labels |-> weather_labels, messages_text |-> messages_text]

\* lines 236-245 (the label is mapped, winfo_y answers its position)
animate_kirby_float(st) ==
    LET t      == st.animation_time + 1
        offset == SinTimes10(t)
    IN  [st EXCEPT !.animation_time = t,
                   !.kirby_y = st.kirby_y + offset - st.kirby_float_offset,
                   !.kirby_float_offset = offset]

\* lines 247-254
update_time(st) == [st EXCEPT !.time_label = "now"]

\* lines 328-331
load_data(st, f) ==
    [st EXCEPT !.weather_labels = DesktopWeather,
               !.messages_text = desktop_load_messages(f)]

RunCallback(fn, st, f) ==
    CASE fn = "animate_kirby_float" -> animate_kirby_float(st)
      [] fn = "update_time"         -> update_time(st)
      [] fn = "load_data"           -> load_data(st, f)

\* mutant: the thread calls the function itself
call_directly(queue, running_calls, th, fn) ==
    [queue |-> queue, executing |-> running_calls \cup {[fn |-> fn, by |-> th]}]

\* self.root.after(0, fn) called by thread th (lines 338, 339, 348): the
\* callback joins the event queue of the Tk main loop
root_after(queue, running_calls, th, fn) ==
    [queue |-> Append(queue, fn), executing |-> running_calls]

Busy(th) == \E e \in executing : e.by = th

DesktopFiles == {Absent, Corrupt, ListFile(NamedList(2)), ListFile(OldList(1))}

\* __init__ after start_animations (line 47): both threads run, load_data
\* (line 50) and mainloop (line 365) are still to come
DesktopInit ==
    /\ gui_pc = "init"
    /\ th_pc = [th \in DesktopThreads |-> IF th = "animation" THEN "after_float" ELSE "sleep"]
    /\ rounds = [th \in DesktopThreads |-> 0]
    /\ tk_queue = <<>>
    /\ executing = {}
    /\ changed_by = {}
    /\ runs = [fn \in Callbacks |-> 0]
    /\ animation_time = 0
    /\ kirby_float_offset = 0
    /\ kirby_y = 0
    /\ time_label = "--:--"
    /\ weather_labels = NoWeatherLabels
    /\ messages_text = NoText

DesktopIdle ==
    /\ gui_pc = "off"
    /\ th_pc = [th \in DesktopThreads |-> "done"]
    /\ rounds = [th \in DesktopThreads |-> 0]
    /\ tk_queue = <<>>
    /\ executing = {}
    /\ changed_by = {}
    /\ runs = [fn \in Callbacks |-> 0]
    /\ animation_time = 0
    /\ kirby_float_offset = 0
    /\ kirby_y = 0
    /\ time_label = "--:--"
    /\ weather_labels = NoWeatherLabels
    /\ messages_text = NoText

desktopStateVars == <<animation_time, kirby_float_offset, kirby_y, time_label,
                      weather_labels, messages_text>>

\* line 50: __init__ calls load_data on the main thread
GuiInitLoadData ==
    /\ gui_pc = "init"
    /\ gui_pc' = "init_load"
    /\ executing' = executing \cup {[fn |-> "load_data", by |-> "gui"]}
    /\ UNCHANGED <<th_pc, rounds, tk_queue, changed_by, runs, desktopStateVars>>

\* line 365: the main loop takes the next callback of its queue
GuiDispatch ==
    /\ gui_pc = "mainloop"
    /\ ~Busy("gui")
    /\ tk_queue # <<>>
    /\ executing' = executing \cup {[fn |-> Head(tk_queue), by |-> "gui"]}
    /\ tk_queue' = Tail(tk_queue)
    /\ UNCHANGED <<gui_pc, th_pc, rounds, changed_by, runs, desktopStateVars>>

\* a running function returns: its changes of the application state are made
\* by the thread that ran it
FinishCall ==
    \E e \in executing :
        LET st == RunCallback(e.fn, DesktopState, file) IN
        /\ executing' = executing \ {e}
        /\ changed_by' = changed_by \cup {e.by}
        /\ runs' = [runs EXCEPT ![e.fn] = @ + 1]
        /\ animation_time' = st.animation_time
        /\ kirby_float_offset' = st.kirby_float_offset
        /\ kirby_y' = st.kirby_y
        /\ time_label' = st.time_label
        /\ weather_labels' = st.weather_labels
        /\ messages_text' = st.messages_text
        /\ gui_pc' = IF gui_pc = "init_load" /\ e.by = "gui" THEN "mainloop" ELSE gui_pc
        /\ UNCHANGED <<th_pc, rounds, tk_queue>>

\* the window is closed: mainloop returns (lines 365-369)
GuiClose ==
    /\ gui_pc = "mainloop"
    /\ ~Busy("gui")
    /\ gui_pc' = "closed"
    /\ tk_queue' = <<>>
    /\ UNCHANGED <<th_pc, rounds, executing, changed_by, runs, desktopStateVars>>

AfterCallback(th) ==
    CASE th_pc[th] = "after_float" -> "animate_kirby_float"
      [] th_pc[th] = "after_time"  -> "update_time"
      [] th_pc[th] = "after_load"  -> "load_data"

AfterNext(th) ==
    CASE th_pc[th] = "after_float" -> "after_time"
      [] th_pc[th] = "after_time"  -> "sleep"
      [] th_pc[th] = "after_load"  -> "sleep"

\* lines 338, 339, 348: a thread schedules a callback; the call is served by
\* the main loop
ThreadAfter(th) ==
    /\ th_pc[th] \in {"after_float", "after_time", "after_load"}
    /\ gui_pc = "mainloop"
    /\ ~Busy(th)
    /\ Len(tk_queue) < MaxQueue
    /\ LET r == root_after(tk_queue, executing, th, AfterCallback(th)) IN
          /\ tk_queue' = r.queue
          /\ executing' = r.executing
    /\ th_pc' = [th_pc EXCEPT ![th] = AfterNext(th)]
    /\ UNCHANGED <<gui_pc, rounds, changed_by, runs, desktopStateVars>>

\* root.after raises while the main loop is not running (before mainloop
\* starts, after the window is closed); lines 341-342 and 349-350 leave the loop
ThreadAfterRaises(th) ==
    /\ th_pc[th] \in {"after_float", "after_time", "after_load"}
    /\ gui_pc # "mainloop"
    /\ ~Busy(th)
    /\ th_pc' = [th_pc EXCEPT ![th] = "done"]
    /\ UNCHANGED <<gui_pc, rounds, tk_queue, executing, changed_by, runs,
                   desktopStateVars>>

\* lines 340 and 347: time.sleep returns
ThreadSleep(th) ==
    /\ th_pc[th] = "sleep"
    /\ ~Busy(th)
    /\ rounds[th] < MaxRounds
    /\ rounds' = [rounds EXCEPT ![th] = @ + 1]
    /\ th_pc' = [th_pc EXCEPT ![th] = IF th = "animation" THEN "after_float" ELSE "after_load"]
    /\ UNCHANGED <<gui_pc, tk_queue, executing, changed_by, runs, desktopStateVars>>

-----------------------------------------------------------------------------
(* kirby_ultimate: the /ws endpoint and its ConnectionManager *)

Conns == 1..MaxConns

\* lines 457-467
WsInitialWeather ==
    [type |-> "weather",
     data |-> [temperature |-> 24, condition |-> "Sunny", feels_like |-> 26,
               humidity |-> 45, wind_speed |-> 12, season |-> "summer"]]

\* mutant: the update carries another reading
WsColdWeather ==
    [type |-> "weather",
     data |-> [temperature |-> 5, condition |-> "Cloudy", feels_like |-> 3,
               humidity |-> 45, wind_speed |-> 12, season |-> "fall"]]

\* lines 488-498
WsUpdateWeather ==
    [type |-> "weather",
     data |-> [temperature |-> 24, condition |-> "Sunny", feels_like |-> 26,
               humidity |-> 45, wind_speed |-> 12, season |-> "summer"]]

\* line 480
WelcomeMessages == <<[message |-> <<"Welcome to Kirby Weather!">>, name |-> <<"System">>]>>

\* lines 471-472 raise when the file is missing, unreadable or no JSON
WsReadRaises(f) == f.kind \in {"absent", "unreadable", "corrupt"}

\* lines 470-481: the 'messages' message, its data being the parsed file or
\* the Welcome list
WsMessages(f) ==
    [type |-> "messages",
     data |-> IF WsReadRaises(f) THEN ListFile(WelcomeMessages) ELSE f]

\* what send_json raises once the client is gone
SendErrors == {"WebSocketDisconnect", "RuntimeError"}

WsFiles == {Absent, Corrupt, NotList, ListFile(<<>>), ListFile(OldList(1))}

RECURSIVE RemoveFirst(_, _)
\* list.remove(x) (line 29)
RemoveFirst(s, x) ==
    IF s = <<>> THEN <<>>
    ELSE IF Head(s) = x THEN Tail(s)
    ELSE <<Head(s)>> \o RemoveFirst(Tail(s), x)

WsInit ==
    /\ ws_pc = [c \in Conns |-> "idle"]
    /\ ws_open = [c \in Conns |-> FALSE]
    /\ ws_sent = [c \in Conns |-> <<>>]
    /\ ws_sleeps = [c \in Conns |-> 0]
    /\ ws_end = [c \in Conns |-> "none"]
    /\ active_connections = <<>>

WsIdle == WsInit

\* lines 453, 24-26: the handler starts, accept() and append
WsConnect(c) ==
    /\ ws_pc[c] = "idle"
    /\ ws_pc' = [ws_pc EXCEPT ![c] = "send_initial"]
    /\ ws_open' = [ws_open EXCEPT ![c] = TRUE]
    /\ active_connections' = Append(active_connections, c)
    /\ UNCHANGED <<ws_sent, ws_sleeps, ws_end>>

\* the client goes away while its handler runs
ClientDisconnect(c) ==
    /\ ws_pc[c] \notin {"idle", "ended"}
    /\ ws_open[c]
    /\ ws_open' = [ws_open EXCEPT ![c] = FALSE]
    /\ UNCHANGED <<ws_pc, ws_sent, ws_sleeps, ws_end, active_connections>>

\* an exception leaves the handler: lines 500-501 catch WebSocketDisconnect
\* only
WsEnd(c, exc) ==
    /\ ws_pc' = [ws_pc EXCEPT ![c] = "ended"]
    /\ ws_end' = [ws_end EXCEPT ![c] = exc]
    /\ active_connections' = IF exc = "WebSocketDisconnect"
                             THEN RemoveFirst(active_connections, c)
                             ELSE active_connections
    /\ UNCHANGED <<ws_open, ws_sent, ws_sleeps>>

\* await websocket.send_json(msg), the handler going on at `next`
WsSend(c, msg, next) ==
    IF ws_open[c]
    THEN /\ ws_sent' = [ws_sent EXCEPT ![c] = Append(@, msg)]
         /\ ws_pc' = [ws_pc EXCEPT ![c] = next]
         /\ UNCHANGED <<ws_open, ws_sleeps, ws_end, active_connections>>
    ELSE \E exc \in SendErrors : WsEnd(c, exc)

\* lines 457-467
WsSendInitial(c) ==
    /\ ws_pc[c] = "send_initial"
    /\ WsSend(c, WsInitialWeather, "load_messages")

\* lines 470-481; when the send of line 473 raises, the bare except sends the
\* Welcome list, which raises again
WsSendMessages(c) ==
    /\ ws_pc[c] = "load_messages"
    /\ WsSend(c, WsMessages(file), "sleep")

\* line 485
WsSleep(c) ==
    /\ ws_pc[c] = "sleep"
    /\ ws_sleeps[c] < MaxSleeps
    /\ ws_sleeps' = [ws_sleeps EXCEPT ![c] = @ + 1]
    /\ ws_pc' = [ws_pc EXCEPT ![c] = "send_update"]
    /\ UNCHANGED <<ws_open, ws_sent, ws_end, active_connections>>

\* lines 488-498
WsSendUpdate(c) ==
    /\ ws_pc[c] = "send_update"
    /\ WsSend(c, WsUpdateWeather, "sleep")

-----------------------------------------------------------------------------
(* The readers of messages.json: kirby_desktop_modern.load_messages and    *)
(* kirby_modern_display.load_current_message / draw_message_card           *)

WelcomeRecord == [message |-> <<"Welcome to Kirby Weather!">>, name |-> <<"System">>]

\* dict.get(key, default)
DictGet(rec, key, default) == IF key \in DOMAIN rec THEN rec[key] ELSE default

\* kirby_modern_display lines 391-399: current_message after the call; pick
\* is the index random.choice takes. The empty list and the empty non-array
\* value leave current_message as it is, an error gives the Welcome record
load_current_message(cur, f, pick) ==
    IF f.kind \in {"absent", "unreadable", "corrupt"} THEN WelcomeRecord
    ELSE IF f.kind = "list" /\ Len(f.data) > 0 THEN f.data[pick]
    ELSE cur

FileHasRecords(f) == f.kind = "list" /\ Len(f.data) > 0

NoCard == [drawn |-> FALSE]

\* kirby_modern_display lines 292-308: the texts of the message card
draw_message_card(cur) ==
    IF cur = None THEN NoCard
    ELSE [drawn   |-> TRUE,
          message |-> DictGet(cur, "message", <<"No message">>),
          from    |-> DictGet(cur, "name", Anonymous)]

ReaderFiles == {Absent, Corrupt, ListFile(<<>>), ListFile(NamedList(1))}

ReaderInit ==
    /\ modern_current_message = None
    /\ modern_card = NoCard

ReaderIdle == ReaderInit

\* POST /send stores one more message
ReaderSave ==
    /\ next_id <= MaxReaderSaves
    /\ \E u \in StoreUsers, m \in StoreMsgs : SaveMessage(u, m, "ok")
    /\ UNCHANGED <<modern_current_message, modern_card, messages_text>>

\* kirby_desktop_modern.load_messages
DesktopLoadMessages ==
    /\ messages_text' = desktop_load_messages(file)
    /\ UNCHANGED <<storeVars, modern_current_message, modern_card>>

\* kirby_modern_display.load_current_message
ModernLoadCurrentMessage ==
    /\ \E pick \in 1..(IF FileHasRecords(file) THEN Len(file.data) ELSE 1) :
          modern_current_message' = load_current_message(modern_current_message, file, pick)
    /\ UNCHANGED <<storeVars, modern_card, messages_text>>

\* kirby_modern_display.draw_message_card
ModernDrawMessageCard ==
    /\ modern_card' = draw_message_card(modern_current_message)
    /\ UNCHANGED <<storeVars, modern_current_message, messages_text>>

-----------------------------------------------------------------------------
(* From POST /send to the screen of kirby_display: the web server stores   *)
(* messages, the display loop fetches GET /api/messages and rotates.       *)
(* The loop runs for ever here, so time is kept relative to the present:   *)
(* the clock reading stays where it is and the three time stamps of the    *)
(* loop move back by the time that has passed, never below 0. The loop     *)
(* only looks at differences between the clock and a time stamp, and with  *)
(* no image to load the image does not depend on the clock.                *)

\* kirby_web_server lines 149-153 and kirby_display lines 215-222: the list
\* that the display gets from a server that answers
api_messages(f) ==
    LET answer == get_all_messages(f) IN
    IF answer.kind = "list" THEN answer.data ELSE <<>>

\* a time stamp after dt more half seconds, the clock reading kept
Earlier(stamp, dt) == IF stamp - dt < 0 THEN 0 ELSE stamp - dt

\* time between two passes of the loop: 10 s or 30 s
DeliverSteps == {20, 60}

DeliverInit ==
    /\ tracked \in 1..MaxDeliver
    /\ tracked_shown = FALSE

DeliverIdle ==
    /\ tracked = 0
    /\ tracked_shown = FALSE

\* lines 448-449 with the relative clock
DeliverTop ==
    /\ pcd = "top"
    /\ running
    /\ \E dt \in DeliverSteps :
          /\ last_image_reload' = Earlier(last_image_reload, dt)
          /\ last_message_fetch' = Earlier(last_message_fetch, dt)
          /\ last_message_rotation' = Earlier(last_message_rotation, dt)
    /\ current_time' = clock
    /\ iter' = [NoIter EXCEPT !.reload_at_top = last_image_reload']
    /\ pcd' = "events"
    /\ UNCHANGED <<clock, listing, running, weather_data, kirby_image, all_messages,
                   current_message_index, current_message>>
    /\ UNCHANGED <<storeVars, tracked, tracked_shown>>

\* lines 451-487, no key pressed and the window left open
DeliverEvents ==
    /\ LoopEventsFrom({<<>>})
    /\ UNCHANGED <<storeVars, tracked, tracked_shown>>

\* lines 489-498, no image file loads
DeliverCycle ==
    /\ LoopCycle
    /\ kirby_image' = NoImage
    /\ UNCHANGED <<storeVars, tracked, tracked_shown>>

\* lines 500-522, the server answering with the content of messages.json
DeliverMessages ==
    /\ LoopMessagesWith(TRUE, api_messages(file))
    /\ tracked_shown' = (tracked_shown \/ current_message' = ServerRecord(tracked))
    /\ UNCHANGED <<storeVars, tracked>>

\* a POST /send that is stored. The loop reads messages.json in its message
\* step only, so an arrival at any other moment of a pass is the same to it
\* as an arrival just before that step
DeliverSend ==
    /\ pcd = "messages"
    /\ next_id <= MaxDeliver
    /\ SaveMessage(<<"k">>, <<"h">>, "ok")
    /\ UNCHANGED <<clock, listing, displayVars, tracked, tracked_shown>>

DeliverLoop == DeliverTop \/ DeliverEvents \/ DeliverCycle \/ DeliverMessages

-----------------------------------------------------------------------------
(* The rotation of kirby_display over a message list that the server may   *)
(* replace at any fetch, on the relative clock of the section before       *)

RotateInit == shown_log = <<>>

RotateIdle == RotateInit

\* the last n elements of s
LastN(s, n) == IF Len(s) <= n THEN s ELSE SubSeq(s, Len(s) - n + 1, Len(s))

RotateTop == DeliverTop /\ UNCHANGED shown_log

RotateEvents == DeliverEvents /\ UNCHANGED shown_log

RotateCycle == DeliverCycle /\ UNCHANGED shown_log

\* lines 500-522; shown_log restarts when the list is replaced and takes the
\* message that a rotation puts on display
RotateMessages ==
    /\ LoopMessages
    /\ LET kept == IF all_messages' = all_messages THEN shown_log ELSE <<>> IN
       shown_log' = IF iter'.rotated
                    THEN LastN(Append(kept, current_message'), Len(all_messages'))
                    ELSE kept
    /\ UNCHANGED <<storeVars, tracked, tracked_shown>>

-----------------------------------------------------------------------------
(* The weather records that carry a season field: kirby_web_modern's       *)
(* /api/weather, kirby_desktop_modern.load_weather_data and the /ws pushes *)

\* kirby_web_modern.get_weather_data, lines 28-48; `raised` says that an
\* exception reached the bare except of line 40
web_get_weather_data(raised) ==
    IF ~raised
    THEN [temperature |-> 24, condition |-> "Sunny", feels_like |-> 26,
          humidity |-> 45, wind_speed |-> 12,
          season |-> web_get_season_from_temperature(24)]
    ELSE [temperature |-> 20, condition |-> "Unknown", feels_like |-> 20,
          humidity |-> 50, wind_speed |-> 0, season |-> "spring"]

RecordsInit == weather_log = <<>>

RecordsIdle == RecordsInit

Logged(source, data) ==
    /\ Len(weather_log) < MaxRecords
    /\ weather_log' = Append(weather_log, [source |-> source, data |-> data])

\* GET /api/weather, lines 62-64
WebApiWeather == \E raised \in BOOLEAN : Logged("web_modern", web_get_weather_data(raised))

\* ModernKirbyApp.load_weather_data
DesktopLoadWeatherData == Logged("desktop_modern", DesktopWeather)

\* the first message of a /ws connection
WsPushInitial == Logged("ws_initial", WsInitialWeather.data)

\* the message after each sleep of a /ws connection
WsPushUpdate == Logged("ws_update", WsUpdateWeather.data)

-----------------------------------------------------------------------------
(* Specifications *)

ExtraIdle == DesktopIdle /\ WsIdle /\ ReaderIdle /\ DeliverIdle /\ RecordsIdle /\ RotateIdle

InitSeason == SeasonInit /\ StoreIdle /\ SendIdle /\ RaceIdle /\ FetchIdle /\ ImageIdle /\ DisplayIdle /\ ExtraIdle

otherThanSeason == <<storeVars, sendVars, raceVars, fetchVars, imageVars, displayVars, extraVars>>
otherThanStore == <<seasonVars, sendVars, raceVars, fetchVars, imageVars, displayVars, extraVars>>
otherThanSend == <<seasonVars, raceVars, fetchVars, imageVars, displayVars, extraVars>>
otherThanRace == <<seasonVars, sendVars, raceStoreVars, fetchVars, imageVars, displayVars, extraVars>>
otherThanFetch == <<seasonVars, storeVars, sendVars, raceVars, imageVars, displayVars, extraVars>>
otherThanImage == <<seasonVars, storeVars, sendVars, raceVars, fetchVars, displayVars, extraVars>>
otherThanDisplay == <<seasonVars, storeVars, sendVars, raceVars, fetchVars,
                      image_temp, image, selection, prev_selection, extraVars>>

NextSeason ==
    \/ NewTemperature /\ UNCHANGED otherThanSeason
    \/ CallDisplaySeason /\ UNCHANGED otherThanSeason
    \/ CallWebSeason /\ UNCHANGED otherThanSeason

SpecSeason == InitSeason /\ [][NextSeason]_vars

InitStore == SeasonIdle /\ StoreInit /\ SendIdle /\ RaceIdle /\ FetchIdle /\ ImageIdle /\ DisplayIdle /\ ExtraIdle

NextStore ==
    \/ StoreSave /\ UNCHANGED otherThanStore
    \/ ApiLatest /\ UNCHANGED otherThanStore
    \/ ApiMessages /\ UNCHANGED otherThanStore

SpecStore == InitStore /\ [][NextStore]_vars

InitSend == SeasonIdle /\ (\E f \in SendInitFiles : StoreStart(f)) /\ SendInit /\ RaceIdle /\ FetchIdle /\ ImageIdle /\ DisplayIdle /\ ExtraIdle

NextSend ==
    \/ PostSend /\ UNCHANGED otherThanSend
    \/ HandleSend /\ UNCHANGED otherThanSend

SpecSend == InitSend /\ [][NextSend]_vars

InitRace == SeasonIdle /\ (\E f \in RaceInitFiles : StoreStart(f)) /\ SendIdle /\ RaceInit /\ FetchIdle /\ ImageIdle /\ DisplayIdle /\ ExtraIdle

NextRace ==
    \/ \E p \in Threads : RaceLoad(p) /\ UNCHANGED otherThanRace
    \/ \E p \in Threads : RaceOpen(p) /\ UNCHANGED otherThanRace
    \/ \E p \in Threads : RaceDump(p) /\ UNCHANGED otherThanRace

SpecRace == InitRace /\ [][NextRace]_vars

InitFetch == SeasonIdle /\ StoreIdle /\ SendIdle /\ RaceIdle /\ FetchInit /\ ImageIdle /\ DisplayIdle /\ ExtraIdle

NextFetchSpec ==
    \/ CallFetch /\ UNCHANGED otherThanFetch
    \/ NextFetch /\ UNCHANGED otherThanFetch

SpecFetch == InitFetch /\ [][NextFetchSpec]_vars

InitImage == SeasonIdle /\ StoreIdle /\ SendIdle /\ RaceIdle /\ FetchIdle /\ ImageInit /\ DisplayIdle /\ ExtraIdle

NextImage ==
    \/ PassTime /\ UNCHANGED otherThanImage
    \/ LoadImage /\ UNCHANGED otherThanImage

SpecImage == InitImage /\ [][NextImage]_vars

InitDisplay ==
    /\ SeasonIdle /\ StoreIdle /\ SendIdle /\ RaceIdle /\ FetchIdle
    /\ image_temp = 0 /\ image = NoImage
    /\ selection = NoSelection /\ prev_selection = NoSelection
    /\ DisplayInit
    /\ ExtraIdle

NextDisplay ==
    \/ LoopTop /\ UNCHANGED otherThanDisplay
    \/ LoopExit /\ UNCHANGED otherThanDisplay
    \/ LoopEvents /\ UNCHANGED otherThanDisplay
    \/ LoopCycle /\ UNCHANGED otherThanDisplay
    \/ LoopMessages /\ UNCHANGED otherThanDisplay

SpecDisplay == InitDisplay /\ [][NextDisplay]_vars

baseVars == <<seasonVars, sendVars, raceVars, fetchVars, imageVars, displayVars, recordVars, rotateVars>>

BaseIdle ==
    /\ SeasonIdle /\ SendIdle /\ RaceIdle /\ FetchIdle /\ ImageIdle /\ DisplayIdle
    /\ RecordsIdle /\ RotateIdle

InitDesktop ==
    /\ BaseIdle
    /\ \E f \in DesktopFiles : StoreStart(f)
    /\ DesktopInit
    /\ WsIdle
    /\ ReaderIdle
    /\ DeliverIdle

otherThanDesktop == <<baseVars, storeVars, wsVars, readerVars, deliverVars>>

NextDesktop ==
    \/ GuiInitLoadData /\ UNCHANGED otherThanDesktop
    \/ GuiDispatch /\ UNCHANGED otherThanDesktop
    \/ FinishCall /\ UNCHANGED otherThanDesktop
    \/ GuiClose /\ UNCHANGED otherThanDesktop
    \/ \E th \in DesktopThreads : ThreadAfter(th) /\ UNCHANGED otherThanDesktop
    \/ \E th \in DesktopThreads : ThreadAfterRaises(th) /\ UNCHANGED otherThanDesktop
    \/ \E th \in DesktopThreads : ThreadSleep(th) /\ UNCHANGED otherThanDesktop

SpecDesktop == InitDesktop /\ [][NextDesktop]_vars

InitWs ==
    /\ BaseIdle
    /\ \E f \in WsFiles : StoreStart(f)
    /\ DesktopIdle
    /\ WsInit
    /\ ReaderIdle
    /\ DeliverIdle

otherThanWs == <<baseVars, storeVars, desktopVars, readerVars, deliverVars>>

NextWs ==
    \/ \E c \in Conns : WsConnect(c) /\ UNCHANGED otherThanWs
    \/ \E c \in Conns : ClientDisconnect(c) /\ UNCHANGED otherThanWs
    \/ \E c \in Conns : WsSendInitial(c) /\ UNCHANGED otherThanWs
    \/ \E c \in Conns : WsSendMessages(c) /\ UNCHANGED otherThanWs
    \/ \E c \in Conns : WsSleep(c) /\ UNCHANGED otherThanWs
    \/ \E c \in Conns : WsSendUpdate(c) /\ UNCHANGED otherThanWs

SpecWs == InitWs /\ [][NextWs]_vars

InitReaders ==
    /\ BaseIdle
    /\ \E f \in ReaderFiles : StoreStart(f)
    /\ DesktopIdle
    /\ WsIdle
    /\ ReaderInit
    /\ DeliverIdle

otherThanReaders ==
    <<baseVars, wsVars, deliverVars, gui_pc, th_pc, rounds, tk_queue, executing, changed_by,
      runs, animation_time, kirby_float_offset, kirby_y, time_label, weather_labels>>

NextReaders ==
    \/ ReaderSave /\ UNCHANGED otherThanReaders
    \/ DesktopLoadMessages /\ UNCHANGED otherThanReaders
    \/ ModernLoadCurrentMessage /\ UNCHANGED otherThanReaders
    \/ ModernDrawMessageCard /\ UNCHANGED otherThanReaders

SpecReaders == InitReaders /\ [][NextReaders]_vars

\* the display starts beside a server that has no messages yet; no image
\* can be loaded and the first weather fetch has failed
InitDeliver ==
    /\ SeasonIdle /\ StoreIdle /\ SendIdle /\ RaceIdle /\ FetchIdle
    /\ image_temp = 0 /\ image = NoImage
    /\ selection = NoSelection /\ prev_selection = NoSelection
    /\ DisplayInit
    /\ clock = 120
    /\ listing["summer"] = 0
    /\ kirby_image = NoImage
    /\ weather_data = DemoWeather
    /\ DesktopIdle /\ WsIdle /\ ReaderIdle /\ RecordsIdle /\ RotateIdle
    /\ DeliverInit

otherThanDeliver == <<seasonVars, sendVars, raceVars, fetchVars,
                      image_temp, image, selection, prev_selection,
                      desktopVars, wsVars, readerVars, recordVars, rotateVars>>

NextDeliver ==
    \/ DeliverTop /\ UNCHANGED otherThanDeliver
    \/ DeliverEvents /\ UNCHANGED otherThanDeliver
    \/ DeliverCycle /\ UNCHANGED otherThanDeliver
    \/ DeliverMessages /\ UNCHANGED otherThanDeliver
    \/ DeliverSend /\ UNCHANGED otherThanDeliver

\* the display loop keeps running: `while running` goes round and nothing
\* in it blocks for longer than a request timeout
SpecDeliver ==
    /\ InitDeliver
    /\ [][NextDeliver]_vars
    /\ WF_vars(DeliverLoop /\ UNCHANGED otherThanDeliver)

InitRecords == SeasonIdle /\ SendIdle /\ RaceIdle /\ FetchIdle /\ ImageIdle /\ DisplayIdle /\ StoreIdle /\ DesktopIdle /\ WsIdle /\ ReaderIdle /\ DeliverIdle /\ RecordsInit /\ RotateIdle

otherThanRecords == <<seasonVars, storeVars, sendVars, raceVars, fetchVars, imageVars, displayVars, desktopVars, wsVars, readerVars, deliverVars, rotateVars>>

NextRecords ==
    \/ WebApiWeather /\ UNCHANGED otherThanRecords
    \/ DesktopLoadWeatherData /\ UNCHANGED otherThanRecords
    \/ WsPushInitial /\ UNCHANGED otherThanRecords
    \/ WsPushUpdate /\ UNCHANGED otherThanRecords

SpecRecords == InitRecords /\ [][NextRecords]_vars

InitRotate ==
    /\ SeasonIdle /\ StoreIdle /\ SendIdle /\ RaceIdle /\ FetchIdle
    /\ image_temp = 0 /\ image = NoImage
    /\ selection = NoSelection /\ prev_selection = NoSelection
    /\ DisplayInit
    /\ clock = 120
    /\ listing["summer"] = 0
    /\ kirby_image = NoImage
    /\ weather_data = DemoWeather
    /\ DesktopIdle /\ WsIdle /\ ReaderIdle /\ DeliverIdle /\ RecordsIdle
    /\ RotateInit

otherThanRotate == <<seasonVars, sendVars, raceVars, fetchVars,
                     image_temp, image, selection, prev_selection,
                     desktopVars, wsVars, readerVars, recordVars>>

NextRotate ==
    \/ RotateTop /\ UNCHANGED otherThanRotate
    \/ RotateEvents /\ UNCHANGED otherThanRotate
    \/ RotateCycle /\ UNCHANGED otherThanRotate
    \/ RotateMessages /\ UNCHANGED otherThanRotate

SpecRotate == InitRotate /\ [][NextRotate]_vars

-----------------------------------------------------------------------------
(* Properties *)

Min(a, b) == IF a <= b THEN a ELSE b

\* number of records in the file; an absent file counts as empty
FileLen(f) == IF f.kind = "list" THEN Len(f.data) ELSE 0

StartedEmpty == start_file \in {Absent, ListFile(<<>>)}

SeasonAsSpecified(t, r) ==
    /\ (t >= 20 => r = "summer")
    /\ (t >= 10 /\ t <= 19 => r = "spring")
    /\ (t >= 0 /\ t <= 9 => r = "fall")
    /\ (t < 0 => r = "winter")

\* C1: both copies of get_season_from_temperature return summer for t >= 20,
\* spring for 10..19, fall for 0..9 and winter for t < 0, for every integer
\* temperature of the range, the boundary values 20, 10, 0, 19, 9, -1 included.
C1_SeasonThresholds ==
    /\ display_season # "none" => SeasonAsSpecified(temperature, display_season)
    /\ web_season # "none" => SeasonAsSpecified(temperature, web_season)

C1_Witness ==
    /\ temperature = 20
    /\ display_season = "summer"
    /\ web_season = "summer"

\* C2: starting from an absent or empty file, right after the N-th successful
\* save with N > 10 the file holds exactly the 10 records saved last, in the
\* order in which they were saved.
C2_LastTenRetained ==
    (StartedEmpty /\ save_ret /\ Len(saved) > 10) =>
        /\ file.kind = "list"
        /\ Len(file.data) = 10
        /\ \A i \in 1..10 : file.data[i] = saved[Len(saved) - 10 + i]

C2_Witness ==
    /\ StartedEmpty
    /\ save_ret
    /\ Len(saved) = 11
    /\ file.kind = "list"
    /\ file.data[1] = saved[2]

\* C3: a successful save leaves an array of length min(previous length + 1, 10),
\* also when the file held more than 10 records; after any successful save
\* the length is at most 10.
C3_LengthCapped ==
    /\ [][next_id' # next_id =>
            /\ file'.kind = "list"
            /\ Len(file'.data) = Min(FileLen(file) + 1, 10)]_vars
    /\ [](save_ret => FileLen(file) <= 10)

C3_Witness ==
    /\ FileLen(start_file) > 10
    /\ save_ret
    /\ Len(saved) = 1
    /\ FileLen(file) = 10

\* C4: a successful save puts the new record last, keeps the surviving older
\* records unaltered and in their order, and removes only as many of the
\* oldest records as the cap of 10 requires.
C4_InsertionOrder ==
    [][next_id' # next_id =>
        LET old  == LoadMessages(file)
            new  == file'.data
            kept == Len(new) - 1
        IN  /\ file'.kind = "list"
            /\ Len(new) >= 1
            /\ new[Len(new)].username = save_args'.username
            /\ new[Len(new)].message = save_args'.message
            /\ new[Len(new)] = saved'[Len(saved')]
            /\ kept = Min(Len(old), 9)
            /\ \A i \in 1..kept : new[i] = old[Len(old) - kept + i]]_vars

C4_Witness ==
    /\ start_file = ListFile(OldList(10))
    /\ save_ret
    /\ Len(saved) = 2
    /\ file.data[1] = OldRecord(3)
    /\ file.data[10] = saved[2]

\* C5: with n >= 1 images in the season folder the image selected is the one
\* at index (unix_time // 30) mod n, which lies in 0..n-1, and two calls in
\* the same 30-second bucket over the same listing select the same image.
Bucket(t) == (t \div 2) \div 30

C5_ImageIndexByBucket ==
    /\ (selection.called /\ selection.count >= 1) =>
            /\ selection.selected.folder = get_season_from_temperature(selection.temperature)
            /\ selection.selected.index \in 0..(selection.count - 1)
            /\ selection.selected.index = Bucket(selection.time) % selection.count
    /\ (/\ selection.called /\ prev_selection.called
        /\ selection.count >= 1
        /\ selection.temperature = prev_selection.temperature
        /\ Bucket(selection.time) = Bucket(prev_selection.time))
            => selection.selected = prev_selection.selected

C5_Witness ==
    /\ selection.called /\ prev_selection.called
    /\ selection.count = 3
    /\ selection.temperature = prev_selection.temperature
    /\ selection.time > prev_selection.time
    /\ Bucket(selection.time) = 1
    /\ Bucket(prev_selection.time) = 1
    /\ selection.selected.index = 1
    /\ prev_selection.selected.index = 1

\* the image was selected anew in this iteration
Reselected == iter.key_reloads + iter.resize_reloads + iter.timer_reloads > 0

\* the event and auto-cycle steps of the iteration are done
AfterCycleStep == pcd = "messages"

TimerRefresh ==
    AfterCycleStep =>
        (current_time - iter.reload_at_top >= Seconds(30) => Reselected)

\* C6 as stated: in the iteration in which 30 s have passed since
\* last_image_reload the image is selected anew, and every press of R
\* selects it anew.
C6_RefreshOnTimerOrKey ==
    /\ TimerRefresh
    /\ AfterCycleStep => iter.key_reloads = iter.r_presses

\* C6 amended: in the iteration in which 30 s have passed since
\* last_image_reload the image is selected anew, and a press of R selects it
\* anew exactly when the weather refresh that it starts returns data.
C6_RefreshOnTimerOrAnsweredKey ==
    /\ TimerRefresh
    /\ AfterCycleStep => iter.key_reloads = iter.r_answered

C6_Witness ==
    /\ AfterCycleStep
    /\ current_time - iter.reload_at_top = Seconds(30)
    /\ iter.timer_reloads = 1
    /\ iter.r_presses = 1
    /\ iter.r_answered = 0
    /\ last_image_reload = current_time

\* C7: no weather fetch function lets an exception through: each call
\* returns, and returns None when the request or the parsing raised.
C7_FetchNeverRaises ==
    fetch_out # NoFetch =>
        /\ fetch_out.kind = "return"
        /\ fetch_out.exc # "none" => fetch_out.value = None

\* does the array s hold the record r?
Holds(s, r) == \E i \in 1..Len(s) : s[i] = r

BothSaved == \A p \in Threads : pc[p] = "done" /\ ret[p] = "True"

\* C8: nothing keeps two save_message calls apart. When both have returned
\* True the file is what the later writer dumped: it ends with that writer's
\* record and holds the other call's record only if the later writer loaded
\* the file after the other one had written it, so with interleaved calls one
\* of the two messages is lost (or the file is no JSON at all when the two
\* writes overlapped).
C8_LastWriterWins ==
    BothSaved =>
        /\ last_writer \in Threads
        /\ \/ file = Corrupt
           \/ /\ file.kind = "list"
              /\ Len(file.data) >= 1
              /\ file.data[Len(file.data)] = RaceRecord(last_writer)
              /\ file.data[Len(file.data)].message = RaceMsg(last_writer)
              /\ Holds(file.data, RaceRecord(Other(last_writer))) <=> saw_other[last_writer]

\* both calls returned True and the file holds only one of the two messages
C8_Witness ==
    /\ BothSaved
    /\ file.kind = "list"
    /\ Holds(file.data, RaceRecord(2))
    /\ ~Holds(file.data, RaceRecord(1))
    /\ Len(file.data) = FileLen(start_file) + 1

\* C9: a POST /send stores a record exactly when the message has a character
\* that is not whitespace and the save succeeds; the stored record carries the
\* stripped message and the stripped username, or "Anonymous" when the
\* username is blank or missing; no stored username is empty; the response is
\* sent=true exactly when a record was stored and error=true otherwise.
IsBlank(s) == \A i \in 1..Len(s) : s[i] \in Whitespace

\* s without the whitespace at its two ends
Trimmed(s) ==
    IF IsBlank(s) THEN <<>>
    ELSE LET first == CHOOSE i \in 1..Len(s) :
                          s[i] \notin Whitespace /\ \A j \in 1..(i - 1) : s[j] \in Whitespace
             last  == CHOOSE i \in 1..Len(s) :
                          s[i] \notin Whitespace /\ \A j \in (i + 1)..Len(s) : s[j] \in Whitespace
         IN  SubSeq(s, first, last)

C9_SendStoresNonBlank ==
    /\ [][posts' = posts + 1 =>
            LET stored == saved' # saved
                user   == FormGet(form.username)
                msg    == FormGet(form.message)
                rec    == saved'[Len(saved')]
            IN  /\ stored <=> (~IsBlank(msg) /\ save_ret')
                /\ stored => /\ FileLen(file') >= 1
                             /\ file'.data[Len(file'.data)] = rec
                             /\ rec.message = Trimmed(msg)
                             /\ rec.username = IF IsBlank(user) THEN Anonymous ELSE Trimmed(user)
                /\ IsBlank(msg) => file' = file
                /\ response' = "sent" <=> stored
                /\ response' = "error" <=> ~stored]_vars
    /\ [](\A i \in 1..Len(saved) : saved[i].username # <<>>)

C9_Witness ==
    /\ ~pending
    /\ response = "sent"
    /\ form.username = Present(<<" ">>)
    /\ form.message = Present(<<" ", "a">>)
    /\ saved # <<>>
    /\ saved[Len(saved)].username = Anonymous
    /\ saved[Len(saved)].message = <<"a">>

\* C10: after a save that returned True and before any later save,
\* get_latest_message returns the record with the saved username and message
\* and get_all_messages returns the stored array with that record last; with
\* no file or an empty array they return None and [].
C10_ReadersSeeLastSave ==
    /\ (save_ret /\ latest_ret.called) =>
            /\ latest_ret.value = saved[Len(saved)]
            /\ latest_ret.value.username = save_args.username
            /\ latest_ret.value.message = save_args.message
    /\ (save_ret /\ all_ret.called) =>
            /\ all_ret.value = file
            /\ all_ret.value.kind = "list"
            /\ all_ret.value.data[Len(all_ret.value.data)] = saved[Len(saved)]
    /\ (file \in {Absent, ListFile(<<>>)} /\ latest_ret.called) => latest_ret.value = None
    /\ (file \in {Absent, ListFile(<<>>)} /\ all_ret.called) => all_ret.value = ListFile(<<>>)

C10_Witness ==
    /\ save_ret
    /\ latest_ret.called
    /\ all_ret.called
    /\ Len(saved) = 2
    /\ FileLen(file) >= 2
    /\ latest_ret.value = saved[2]

\* C12: the copy of get_season_from_temperature in kirby_display.py and the
\* copy in kirby_web_modern.py return the same season for every temperature.
C12_CopiesAgree ==
    (display_season # "none" /\ web_season # "none") =>
        display_season = web_season

\* both copies have answered for a temperature on a threshold
C12_Witness ==
    /\ temperature \in {0, 10, 20}
    /\ display_season # "none"
    /\ web_season = display_season

\* C11: the season folder of load_kirby_image_by_temperature is one of the
\* four seasons and depends on the temperature only: two calls with the same
\* temperature and different weather_condition search the same folder.
C11_FolderByTemperatureOnly ==
    /\ selection.called => selection.folder \in Seasons
    /\ (selection.called /\ prev_selection.called
            /\ selection.temperature = prev_selection.temperature) =>
          /\ selection.folder = prev_selection.folder
          /\ selection.selected.folder = prev_selection.selected.folder

\* two calls at 25 degrees, one under snow and one under a clear sky
C11_Witness ==
    /\ selection.called /\ prev_selection.called
    /\ selection.temperature = 25 /\ prev_selection.temperature = 25
    /\ selection.condition = "Snow" /\ prev_selection.condition = "Clear"
    /\ selection.folder = prev_selection.folder
    /\ selection.count > 0

\* C13: in kirby_desktop_modern the two daemon threads only schedule
\* callbacks with root.after: every change of the application state is made by
\* the main (GUI) thread, and no two of animate_kirby_float, update_time and
\* load_data run at the same time.
C13_GuiThreadOwnsState ==
    /\ changed_by \subseteq {"gui"}
    /\ \A e \in executing : e.by = "gui"
    /\ Cardinality(executing) <= 1

\* both threads have scheduled callbacks, all three functions have run, and
\* one is running while another waits in the queue
C13_Witness ==
    /\ runs["animate_kirby_float"] >= 1
    /\ runs["update_time"] >= 1
    /\ runs["load_data"] >= 2
    /\ rounds["data"] >= 1
    /\ executing # {}
    /\ tk_queue # <<>>

\* what has been sent on connection c follows the order of the handler
WsInOrder(c) ==
    LET s == ws_sent[c] IN
    /\ Len(s) >= 1 => s[1].type = "weather"
    /\ Len(s) >= 2 => s[2] = [type |-> "messages",
                              data |-> IF file.kind \in {"list", "notlist"}
                                       THEN file ELSE ListFile(WelcomeMessages)]
    /\ \A i \in 3..Len(s) : s[i].type = "weather"
    /\ \A i \in 1..Len(s) :
          s[i].type = "weather" =>
              /\ s[i].data = s[1].data
              /\ s[i].data.temperature = 24
              /\ s[i].data.season = "summer"

\* one message per step of the handler, one update after each sleep
WsOnePerStep(c) ==
    /\ ws_pc[c] \in {"idle", "send_initial"} => Len(ws_sent[c]) = 0
    /\ ws_pc[c] = "load_messages" => Len(ws_sent[c]) = 1
    /\ ws_pc[c] = "sleep" => Len(ws_sent[c]) = 2 + ws_sleeps[c]
    /\ ws_pc[c] = "send_update" => Len(ws_sent[c]) = 1 + ws_sleeps[c]
    /\ ws_pc[c] = "ended" => Len(ws_sent[c]) <= 2 + ws_sleeps[c]

\* C14: on each /ws connection the server sends one 'weather' message, then
\* one 'messages' message (the content of messages.json, or the Welcome list
\* when the file cannot be read), then only 'weather' messages, one after
\* each 30-second sleep; every weather message carries the same data
\* (temperature 24, season summer).
C14_WsMessageOrder == \A c \in Conns : WsInOrder(c) /\ WsOnePerStep(c)

\* one connection got the Welcome list and two updates while another one
\* ended after its first message
C14_Witness ==
    /\ file.kind = "corrupt"
    /\ \E c \in Conns :
          /\ Len(ws_sent[c]) = 4
          /\ ws_sent[c][2].data = ListFile(WelcomeMessages)
          /\ ws_sleeps[c] = 2
    /\ \E c \in Conns : ws_pc[c] = "ended" /\ Len(ws_sent[c]) = 1

\* the message-update steps (lines 500-522) of an iteration have just run
AfterMessageStep == pcd = "top" /\ current_time > 0

\* C15: after the message-update steps of every iteration of
\* kirby_display.main, a non-empty all_messages means that a message is
\* displayed, and it is all_messages[current_message_index] with
\* 0 <= current_message_index < len(all_messages); also after a fetch has
\* replaced all_messages by a shorter list.
C15_MessageShownWhenAvailable ==
    (AfterMessageStep /\ all_messages # <<>>) =>
        /\ current_message_index \in 0..(Len(all_messages) - 1)
        /\ current_message = all_messages[current_message_index + 1]

\* C16: the displayed message changes only in an iteration where a rotation
\* fires, so two changes are at least 30 s apart, also when a fetch replaces
\* the list between two rotations.
C16_ChangeOnlyOnRotation ==
    [][(pcd = "messages" /\ current_message' # current_message) =>
           /\ iter'.rotated
           /\ current_time - last_message_rotation >= Seconds(message_rotation_interval)]_vars

\* C17: once messages exist, a message rotation and an automatic image reload
\* happen in the same iterations: each rotation comes with a timer reload and
\* each timer reload with a rotation.
C17_RotationWithImageCycle ==
    (AfterMessageStep /\ all_messages # <<>>) =>
        (iter.rotated <=> iter.timer_reloads > 0)

\* C19: a save_message call that returns False leaves messages.json holding
\* what it held before the call; an unparsable file stays as it is, every
\* later save_message returns False, get_all_messages returns [] and
\* get_latest_message returns None.
C19_FailedSaveKeepsFile ==
    [][/\ (save_args' # None /\ ~save_ret') => file' = file
       /\ file.kind = "corrupt" =>
             /\ file' = file
             /\ ~save_ret'
             /\ all_ret' \in {NotCalled, Returned(ListFile(<<>>))}
             /\ latest_ret' \in {NotCalled, Returned(None)}]_vars

\* the line of the desktop widget, or the card, that shows rec as it was sent
ShownAsSent(rec) == [message |-> rec.message, from |-> rec.username]

\* C20: every record that save_message has written to messages.json is
\* displayed with its message text and the username it was sent under by
\* kirby_desktop_modern.load_messages, and by
\* kirby_modern_display.draw_message_card once the record is the current one.
C20_ReadersShowSavedRecords ==
    [][/\ DesktopLoadMessages =>
             \A i \in 1..FileLen(file) :
                 Holds(saved, file.data[i]) =>
                     /\ messages_text'.kind = "text"
                     /\ Holds(messages_text'.lines, ShownAsSent(file.data[i]))
       /\ (ModernDrawMessageCard /\ Holds(saved, modern_current_message)) =>
             /\ modern_card'.drawn
             /\ modern_card'.message = modern_current_message.message
             /\ modern_card'.from = modern_current_message.username]_vars

TrackedStored == next_id > tracked

C21_SeasonMatchesTemperature ==
    \A i \in 1..Len(weather_log) :
        weather_log[i].data.season =
            get_season_from_temperature(weather_log[i].data.temperature)

Occurrences(s, x) == Cardinality({i \in 1..Len(s) : s[i] = x})

WsRunning(c) == ws_pc[c] \notin {"idle", "ended"}

\* C22: active_connections holds exactly the sockets whose /ws handler is
\* still running, each once; once a handler has ended, by any exception, its
\* socket is no longer in the list
C22_ActiveConnectionsAreRunning ==
    \A c \in Conns :
        Occurrences(active_connections, c) = IF WsRunning(c) THEN 1 ELSE 0

\* the part of C22 that the code keeps: a running handler's socket is in the
\* list once, and a handler ended by WebSocketDisconnect has left it
WsListedWhileRunning ==
    \A c \in Conns :
        /\ WsRunning(c) => Occurrences(active_connections, c) = 1
        /\ ws_end[c] = "WebSocketDisconnect" => Occurrences(active_connections, c) = 0
        /\ ws_pc[c] = "idle" => Occurrences(active_connections, c) = 0

WeatherKeys == {"condition", "temperature", "city"}

\* a pass of the event step in which R was pressed, no refresh returned data
\* and the window was not resized
FailedRefresh ==
    /\ pcd = "events" /\ pcd' = "cycle"
    /\ iter'.r_presses > iter.r_presses
    /\ iter'.r_answered = iter.r_answered
    /\ iter'.resize_reloads = iter.resize_reloads

\* C23: weather_data is at every loop iteration a record with condition,
\* temperature and city; when the first fetch returns None it is the demo
\* record with temperature 20; a failed refresh on the R key leaves
\* weather_data, the image and last_image_reload as they were
C23_WeatherDataComplete ==
    /\ [](WeatherKeys \subseteq DOMAIN weather_data)
    /\ [](iter.first_fetch = Returned(None)
            => weather_data = DemoWeather /\ weather_data.temperature = 20)
    /\ [][FailedRefresh => UNCHANGED <<weather_data, kirby_image, last_image_reload>>]_vars

\* the first fetch failed, and so did a refresh in the third pass of the loop
C23_Witness ==
    /\ pcd = "cycle"
    /\ iter.r_presses > 0
    /\ iter.r_answered = 0
    /\ weather_data = DemoWeather
    /\ current_time > clock - 1
    /\ kirby_image # NoImage

\* a pass of the message step in which the fetch of line 502 is made, the
\* server answering server_list (ok) or not at all
FetchStep(ok, server_list) ==
    /\ current_time - last_message_fetch >= Seconds(message_fetch_interval)
    /\ LoopMessagesWith(ok, server_list)

\* what C24 says about the pass whose fetch returned new_messages
FetchEffect(new_messages) ==
    /\ new_messages = <<>> =>
          /\ all_messages' = all_messages
          /\ ~iter'.rotated => UNCHANGED <<current_message_index, current_message>>
          /\ iter'.rotated =>
                current_message_index' = (current_message_index + 1) % Len(all_messages)
    /\ (/\ new_messages # <<>>
        /\ \/ Len(new_messages) # Len(all_messages)
           \/ new_messages[Len(new_messages)] # all_messages[Len(all_messages)])
          => all_messages' = new_messages

\* C24: a message fetch that fails or returns an empty list leaves
\* all_messages, current_message_index and the displayed message as they
\* were (the index moving only by the rotation of the same pass); a fetch that
\* returns a non-empty list differing from all_messages in length or in its
\* last element makes all_messages the fetched list
C24_FetchFrame ==
    [][\A ok \in BOOLEAN, server_list \in ServerLists :
          FetchStep(ok, server_list)
              => FetchEffect(display_get_all_messages(ok, server_list))]_vars

\* a fetch has been made in this pass with a message on display, no rotation
\* being due, and the list in place is not the server's first one
C24_Witness ==
    /\ pcd = "top"
    /\ iter.fetched
    /\ ~iter.rotated
    /\ all_messages = <<ServerRecord(2)>>
    /\ current_message = ServerRecord(2)
    /\ last_message_rotation > 0

\* a rotation over the list that the pass started with
RotationOnSameList ==
    /\ pcd = "messages" /\ pcd' = "top"
    /\ iter'.rotated
    /\ all_messages' = all_messages

\* log is the list read round from some message on
InListOrder(log, list) ==
    \E k \in 0..(Len(list) - 1) :
        \A j \in 1..Len(list) : log[j] = list[((k + j - 1) % Len(list)) + 1]

====
